---- MODULE Spec2Model ----
(***************************************************************************)
(* Learning-progress synchronisation of the Aurebesh app.                  *)
(*                                                                         *)
(* The model covers the ReadScreen component (live counters, the handlers  *)
(* checkAnswer / handleShowAnswer / handleSkip / handleDifficultyChange,   *)
(* the statistics load and refresh, the debounced save effect, the unmount *)
(* effect), the store functions of utils/learningDatabase.ts               *)
(* (getUserLearningStatistics, updateUserStatistics,                       *)
(* saveCompleteLearningSession, createLearningSession,                     *)
(* updateLearningSession) and the tables and trigger of                    *)
(* queries/learning_statistics.sql.                                        *)
(*                                                                         *)
(* A React render together with the effects it schedules is one step.      *)
(* Every await of a handler or store function is a step boundary.          *)
(* Time is a logical clock that advances with each direct store call; the  *)
(* screen-level specifications run at time 0. Durations are not modelled.  *)
(***************************************************************************)
EXTENDS Integers, FiniteSets, Sequences, TLC

(***************************************************************************)
(* Bounds of the model.                                                    *)
(***************************************************************************)
\* number of user events (answers, skips, reveals, difficulty changes,
\* re-focus of the screen) in one run
MaxEvents == 2
\* number of direct store calls in one run of the store-level specification
MaxStoreCalls == 2
\* largest counter value of a snapshot handed to the store directly
MaxCount == 1
\* largest attempted count of a row whose accuracy is read
MaxAttempted == 6

(***************************************************************************)
(* Program constants.                                                      *)
(***************************************************************************)
\* setTimeout(..., 100): the debounce delay, in units of 100 ms
DebounceTicks == 1

\* useState<Date>(new Date()): the start time of the screen's session
SessionStartTime == 0

\* a timestamp column that is NULL
NullDate == -1

Difficulty == {"easy", "medium", "hard"}

Max(a, b) == IF a >= b THEN a ELSE b
Min(a, b) == IF a <= b THEN a ELSE b

(***************************************************************************)
(* VARIABLES                                                               *)
(***************************************************************************)
VARIABLES
  \* ---- React state of ReadScreen
  score,                   \* useState(0)
  streak,                  \* useState(0)
  questionsAnswered,       \* useState(0)
  sessionQuestionsCorrect, \* useState(0)
  sessionMaxStreak,        \* useState(0)
  difficulty,              \* useState('easy')
  isCorrect,               \* useState<boolean | null>(null): "null" | "true" | "false"
  showAnswer,              \* useState(false)
  sessionDataRef,          \* useRef<SessionSummary>
  mounted,                 \* the component is mounted
  \* ---- asynchronous work of the screen
  handlers,                \* handlers suspended at their await haptic...()
  loads,                   \* getUserLearningStatistics calls of load / refresh
  timers,                  \* pending setTimeout callbacks of the save effect
  autoAdvance,             \* a setTimeout(loadNewWord, 1500) is pending
  calls,                   \* updateUserStatistics calls in flight
  saves,                   \* saveCompleteLearningSession calls in flight
  \* ---- database
  learning_statistics,     \* the user's rows of learning_statistics
  learning_sessions,       \* the user's rows of learning_sessions
  \* ---- bookkeeping of the run (not program state)
  events,                  \* user events so far
  nIssued,                 \* updateUserStatistics calls issued so far
  seed,                    \* stats loadUserStatistics seeded the counters from,
                           \* when it did so before any user event
  recorded,                \* answers recorded (k), correct ones (c), highest streak (hi)
  ideal,                   \* learning_statistics had every issued write succeeded
                           \* in the order the calls were issued
  lastMerged,              \* the updates that last wrote the table, and how many
                           \* times in a row they did
  storeCalls,              \* direct store calls so far (store-level specification)
  \* ---- Supabase auth
  user                     \* what supabase.auth.getUser() yields: the signed-in
                           \* user, or none

\* the outcomes of supabase.auth.getUser(): data.user is null, or the user
NoUser == "none"
SignedIn == "user"
Users == {NoUser, SignedIn}

reactVars == <<score, streak, questionsAnswered, sessionQuestionsCorrect,
               sessionMaxStreak, difficulty, isCorrect, showAnswer, sessionDataRef>>
asyncVars == <<handlers, loads, timers, autoAdvance, calls, saves>>
dbVars    == <<learning_statistics, learning_sessions, user>>
histVars  == <<events, nIssued, seed, recorded, ideal, lastMerged, storeCalls>>
vars      == <<reactVars, mounted, asyncVars, dbVars, histVars>>

(***************************************************************************)
(* learning_statistics.sql: rows, the trigger function, the stats RPC      *)
(***************************************************************************)
\* the row a session summary becomes in learning_sessions
SessionRow(d, start, qa, qc, ms, fs, ended) ==
  [difficulty |-> d, session_start |-> start, questions_attempted |-> qa,
   questions_correct |-> qc, max_streak |-> ms, final_score |-> fs,
   session_end |-> ended]

\* CASE WHEN new.difficulty = d THEN n ELSE 0 END, for the three columns
OnlyFor(d, n) == [x \in Difficulty |-> IF x = d THEN n ELSE 0]

\* update_learning_statistics(): INSERT ... ON CONFLICT (user_id) DO UPDATE
update_learning_statistics(table, new) ==
  IF table = {}
  THEN {[total_sessions            |-> 1,
         total_questions_attempted |-> new.questions_attempted,
         total_questions_correct   |-> new.questions_correct,
         best_streak               |-> new.max_streak,
         current_streak            |-> 0,
         best_score                |-> new.final_score,
         d_questions_correct       |-> OnlyFor(new.difficulty, new.questions_correct),
         d_questions_attempted     |-> OnlyFor(new.difficulty, new.questions_attempted),
         first_session_date        |-> new.session_start,
         last_session_date         |-> new.session_start]}
  ELSE {[r EXCEPT
           !.total_sessions            = r.total_sessions + 1,
           !.total_questions_attempted = r.total_questions_attempted + new.questions_attempted,
           !.total_questions_correct   = r.total_questions_correct + new.questions_correct,
           !.best_streak               = Max(r.best_streak, new.max_streak),
           !.best_score                = Max(r.best_score, new.final_score),
           !.d_questions_correct       =
              [x \in Difficulty |-> r.d_questions_correct[x]
                                      + OnlyFor(new.difficulty, new.questions_correct)[x]],
           !.d_questions_attempted     =
              [x \in Difficulty |-> r.d_questions_attempted[x]
                                      + OnlyFor(new.difficulty, new.questions_attempted)[x]],
           !.last_session_date         = new.session_start]
        : r \in table}

\* trigger_update_learning_statistics: AFTER UPDATE OF session_end,
\* WHEN (NEW.session_end IS NOT NULL AND OLD.session_end IS NULL)
TriggerFires(old, new) == new.session_end /\ ~old.session_end

\* ROUND(x, 2) of the NUMERIC x = n / d * 100 (n, d >= 0, d > 0), in
\* hundredths of a percent; halves round away from zero
Round2(n, d) == (2 * 10000 * n + d) \div (2 * d)

\* an accuracy column cut off after two decimals instead of rounded
AccuracyTruncated(correct, attempted) ==
  IF attempted > 0 THEN (10000 * correct) \div attempted ELSE 0

\* CASE WHEN attempted > 0 THEN ROUND(correct / attempted * 100, 2) ELSE 0 END,
\* in hundredths of a percent
Accuracy(correct, attempted) ==
  IF attempted > 0 THEN Round2(correct, attempted) ELSE 0

\* get_user_learning_stats(): the columns of the user's row the screen
\* reads, and the derived accuracy columns
get_user_learning_stats(table) ==
  {[total_sessions            |-> r.total_sessions,
    total_questions_attempted |-> r.total_questions_attempted,
    total_questions_correct   |-> r.total_questions_correct,
    accuracy_percentage       |-> Accuracy(r.total_questions_correct,
                                           r.total_questions_attempted),
    best_streak               |-> r.best_streak,
    current_streak            |-> r.current_streak,
    best_score                |-> r.best_score,
    d_accuracy                |-> [x \in Difficulty |->
                                     Accuracy(r.d_questions_correct[x],
                                              r.d_questions_attempted[x])]]
   : r \in table}

(***************************************************************************)
(* utils/learningDatabase.ts: updateUserStatistics                         *)
(***************************************************************************)
\* the argument of updateUserStatistics as the save effect builds it
Updates(qa, qc, cs, d) ==
  [questions_attempted |-> qa, questions_correct |-> qc,
   current_streak |-> cs, difficulty |-> d]

\* a best_streak that keeps the stored value whatever the current streak
BestStreakOfExisting(existing, updates) == existing.best_streak

\* updateData.best_streak = Math.max(existing.best_streak || 0, updates.current_streak)
BestStreak(existing, updates) == Max(existing.best_streak, updates.current_streak)

\* an update path that adds the snapshot to the stored totals
UpdateDataAdding(existing, r, updates, now) ==
  [r EXCEPT
     !.last_session_date         = now,
     !.total_questions_attempted = @ + updates.questions_attempted,
     !.total_questions_correct   = @ + updates.questions_correct,
     !.current_streak            = updates.current_streak,
     !.best_streak               = BestStreak(existing, updates),
     !.d_questions_correct       =
        [r.d_questions_correct EXCEPT ![updates.difficulty] = @ + updates.questions_correct],
     !.d_questions_attempted     =
        [r.d_questions_attempted EXCEPT ![updates.difficulty] = @ + updates.questions_attempted]]

\* an update path that also rewrites first_session_date
UpdateDataResettingFirst(existing, r, updates, now) ==
  [r EXCEPT
     !.first_session_date        = now,
     !.last_session_date         = now,
     !.total_questions_attempted = updates.questions_attempted,
     !.total_questions_correct   = updates.questions_correct,
     !.current_streak            = updates.current_streak,
     !.best_streak               = BestStreak(existing, updates),
     !.d_questions_correct       =
        [r.d_questions_correct EXCEPT ![updates.difficulty] = updates.questions_correct],
     !.d_questions_attempted     =
        [r.d_questions_attempted EXCEPT ![updates.difficulty] = updates.questions_attempted]]

\* the update path: .update(updateData).eq('user_id', ...) on row r, with
\* updateData computed from the row read earlier (existing)
UpdateData(existing, r, updates, now) ==
  [r EXCEPT
     !.last_session_date         = now,
     !.total_questions_attempted = updates.questions_attempted,
     !.total_questions_correct   = updates.questions_correct,
     !.current_streak            = updates.current_streak,
     !.best_streak               = BestStreak(existing, updates),
     !.d_questions_correct       =
        [r.d_questions_correct EXCEPT ![updates.difficulty] = updates.questions_correct],
     !.d_questions_attempted     =
        [r.d_questions_attempted EXCEPT ![updates.difficulty] = updates.questions_attempted]]

\* a create path that leaves best_streak and first_session_date unset
InsertDataWithoutBest(updates, now) ==
  [first_session_date        |-> NullDate,
   last_session_date         |-> now,
   total_sessions            |-> 1,
   total_questions_attempted |-> updates.questions_attempted,
   total_questions_correct   |-> updates.questions_correct,
   current_streak            |-> updates.current_streak,
   best_streak               |-> 0,
   best_score                |-> updates.questions_correct,
   d_questions_correct       |-> OnlyFor(updates.difficulty, updates.questions_correct),
   d_questions_attempted     |-> OnlyFor(updates.difficulty, updates.questions_attempted)]

\* the create path: .insert(insertData)
InsertData(updates, now) ==
  [first_session_date        |-> now,
   last_session_date         |-> now,
   total_sessions            |-> 1,
   total_questions_attempted |-> updates.questions_attempted,
   total_questions_correct   |-> updates.questions_correct,
   current_streak            |-> updates.current_streak,
   best_streak               |-> updates.current_streak,
   best_score                |-> updates.questions_correct,
   d_questions_correct       |-> OnlyFor(updates.difficulty, updates.questions_correct),
   d_questions_attempted     |-> OnlyFor(updates.difficulty, updates.questions_attempted)]

\* what a successful write of a call does to the table: the update path when
\* the select found a row, the insert otherwise (refused by UNIQUE (user_id)
\* when a row exists by then)
WriteResult(table, existing, updates, now) ==
  IF existing # {}
  THEN {UpdateData(CHOOSE e \in existing : TRUE, r, updates, now) : r \in table}
  ELSE IF table = {} THEN {InsertData(updates, now)} ELSE table

\* the write changes the table: an update always does (of the rows there
\* are), an insert only while the user has no row
WriteAccepted(table, existing) == existing # {} \/ table = {}

\* the whole of updateUserStatistics run without interruption or failure
MergeIncremental(table, updates, now) == WriteResult(table, table, updates, now)

(***************************************************************************)
(* ReadScreen.tsx: state after construction                                *)
(***************************************************************************)
\* the SessionSummary the ref effect stores
SessionData(d, qa, sc, st) ==
  [difficulty |-> d, questionsAttempted |-> qa, questionsCorrect |-> sc,
   maxStreak |-> st, score |-> sc, startTime |-> SessionStartTime]

\* a row an earlier run of the app left behind: a wrong and then a right
\* answer on 'easy', written by the create path of updateUserStatistics
EarlierRow == InsertData(Updates(2, 1, 1, "easy"), SessionStartTime)

\* the table before the screen mounts: no row yet, or the earlier row
InitialTables == {{}, {EarlierRow}}

\* a getUserLearningStatistics call of loadUserStatistics / refreshStatistics
LoadCall(id, kind) == [id |-> id, kind |-> kind, pc |-> "rpc", stats |-> {}]

Init ==
  /\ score = 0
  /\ streak = 0
  /\ questionsAnswered = 0
  /\ sessionQuestionsCorrect = 0
  /\ sessionMaxStreak = 0
  /\ difficulty = "easy"
  /\ isCorrect = "null"
  /\ showAnswer = FALSE
  /\ sessionDataRef = SessionData("easy", 0, 0, 0)
  /\ mounted = TRUE
  /\ handlers = {}
  /\ loads = {LoadCall(0, "load"), LoadCall(0, "refresh")}
  /\ timers = {}
  /\ autoAdvance = FALSE
  /\ calls = {}
  /\ saves = {}
  /\ learning_statistics \in InitialTables
  /\ learning_sessions = <<>>
  /\ events = 0
  /\ nIssued = 0
  /\ seed = {}
  /\ recorded = [k |-> 0, c |-> 0, hi |-> 0]
  /\ ideal = learning_statistics
  /\ lastMerged = {}
  /\ storeCalls = 0
  /\ user = SignedIn

(***************************************************************************)
(* ReadScreen.tsx: a render and the effects that follow it                 *)
(***************************************************************************)
\* the save effect without its cleanup: the earlier timeout stays armed
DebouncedSaveNoCleanup(pending, qa, sc, st, d) ==
  IF qa > 0
  THEN pending \cup {[updates |-> Updates(qa, sc, st, d), age |-> 0]}
  ELSE pending

\* the save effect (deps [score, streak, questionsAnswered]): the cleanup of
\* the previous run clears its timeout, then a new timeout is set when at
\* least one question has been answered
DebouncedSave(pending, qa, sc, st, d) ==
  IF qa > 0
  THEN {[updates |-> Updates(qa, sc, st, d), age |-> 0]}
  ELSE {}

\* the ref effect (deps [difficulty, questionsAnswered, score, streak, ...])
RefEffect(d, qa, sc, st) == SessionData(d, qa, sc, st)

\* the state setters of one batch take effect, the component renders and its
\* effects run; a changed difficulty runs loadNewWord()
Render(nsc, nst, nqa, nsqc, nsms, nd, nic, nsa, dk, dc) ==
  LET statsChanged == <<nsc, nst, nqa>> # <<score, streak, questionsAnswered>>
      refChanged   == statsChanged \/ nd # difficulty
  IN
  /\ score' = nsc
  /\ streak' = nst
  /\ questionsAnswered' = nqa
  /\ sessionQuestionsCorrect' = nsqc
  /\ sessionMaxStreak' = nsms
  /\ difficulty' = nd
  /\ isCorrect' = IF nd # difficulty THEN "null" ELSE nic
  /\ showAnswer' = IF nd # difficulty THEN FALSE ELSE nsa
  /\ sessionDataRef' = IF refChanged THEN RefEffect(nd, nqa, nsc, nst) ELSE sessionDataRef
  /\ timers' = IF statsChanged THEN DebouncedSave(timers, nqa, nsc, nst, nd) ELSE timers
  /\ ideal' = ideal
  /\ recorded' = [k |-> recorded.k + dk, c |-> recorded.c + dc,
                   hi |-> Max(recorded.hi, nst)]

(***************************************************************************)
(* ReadScreen.tsx: the handlers                                            *)
(***************************************************************************)
\* a handler suspended at its await, with the values its closure captured
Handler(id, op, qa, sc, st, arg) ==
  [id |-> id, op |-> op, qa |-> qa, sc |-> sc, st |-> st, arg |-> arg]

\* checkAnswer up to "await haptic...": a non-empty answer (an empty one
\* returns early and changes nothing); setIsCorrect is rendered at once
CheckAnswer ==
  /\ mounted /\ events < MaxEvents
  /\ isCorrect = "null" /\ ~showAnswer
  /\ \E isAnswerCorrect \in BOOLEAN :
       /\ isCorrect' = IF isAnswerCorrect THEN "true" ELSE "false"
       /\ handlers' = handlers \cup
            {Handler(events + 1, "check", questionsAnswered, score, streak, isAnswerCorrect)}
  /\ events' = events + 1
  /\ UNCHANGED <<score, streak, questionsAnswered, sessionQuestionsCorrect,
                 sessionMaxStreak, difficulty, showAnswer, sessionDataRef>>
  /\ UNCHANGED <<mounted, loads, timers, autoAdvance, calls, saves, dbVars>>
  /\ UNCHANGED <<nIssued, seed, recorded, ideal, lastMerged, storeCalls>>

\* checkAnswer after the await: the batched setters, then the render
CheckAnswerResume(h) ==
  /\ mounted /\ h \in handlers /\ h.op = "check"
  /\ handlers' = handlers \ {h}
  /\ IF h.arg
     THEN /\ Render(h.sc + 1, h.st + 1, h.qa + 1, sessionQuestionsCorrect,
                    sessionMaxStreak, difficulty, isCorrect, showAnswer, 1, 1)
          /\ autoAdvance' = TRUE
     ELSE /\ Render(score, 0, h.qa + 1, sessionQuestionsCorrect,
                    sessionMaxStreak, difficulty, isCorrect, showAnswer, 1, 0)
          /\ autoAdvance' = autoAdvance
  /\ UNCHANGED <<mounted, loads, calls, saves, dbVars>>
  /\ UNCHANGED <<events, nIssued, seed, lastMerged, storeCalls>>

\* handleShowAnswer up to its await (the button is disabled once shown)
HandleShowAnswer ==
  /\ mounted /\ events < MaxEvents
  /\ ~showAnswer
  /\ handlers' = handlers \cup {Handler(events + 1, "show", 0, 0, 0, FALSE)}
  /\ events' = events + 1
  /\ UNCHANGED <<reactVars, mounted, loads, timers, autoAdvance, calls, saves, dbVars>>
  /\ UNCHANGED <<nIssued, seed, recorded, ideal, lastMerged, storeCalls>>

\* handleShowAnswer after the await: setShowAnswer(true); setStreak(0)
HandleShowAnswerResume(h) ==
  /\ mounted /\ h \in handlers /\ h.op = "show"
  /\ handlers' = handlers \ {h}
  /\ Render(score, 0, questionsAnswered, sessionQuestionsCorrect,
            sessionMaxStreak, difficulty, isCorrect, TRUE, 0, 0)
  /\ UNCHANGED <<mounted, loads, autoAdvance, calls, saves, dbVars>>
  /\ UNCHANGED <<events, nIssued, seed, lastMerged, storeCalls>>

\* handleSkip up to its await
HandleSkip ==
  /\ mounted /\ events < MaxEvents
  /\ handlers' = handlers \cup {Handler(events + 1, "skip", questionsAnswered, 0, 0, FALSE)}
  /\ events' = events + 1
  /\ UNCHANGED <<reactVars, mounted, loads, timers, autoAdvance, calls, saves, dbVars>>
  /\ UNCHANGED <<nIssued, seed, recorded, ideal, lastMerged, storeCalls>>

\* handleSkip after the await: setStreak(0); setQuestionsAnswered(qa + 1);
\* loadNewWord()
HandleSkipResume(h) ==
  /\ mounted /\ h \in handlers /\ h.op = "skip"
  /\ handlers' = handlers \ {h}
  /\ Render(score, 0, h.qa + 1, sessionQuestionsCorrect,
            sessionMaxStreak, difficulty, "null", FALSE, 1, 0)
  /\ UNCHANGED <<mounted, loads, autoAdvance, calls, saves, dbVars>>
  /\ UNCHANGED <<events, nIssued, seed, lastMerged, storeCalls>>

\* handleDifficultyChange up to its await
HandleDifficultyChange ==
  /\ mounted /\ events < MaxEvents
  /\ \E newDifficulty \in Difficulty :
       handlers' = handlers \cup {Handler(events + 1, "difficulty", 0, 0, 0, newDifficulty)}
  /\ events' = events + 1
  /\ UNCHANGED <<reactVars, mounted, loads, timers, autoAdvance, calls, saves, dbVars>>
  /\ UNCHANGED <<nIssued, seed, recorded, ideal, lastMerged, storeCalls>>

\* a handleDifficultyChange that starts the counters again at zero
HandleDifficultyChangeResetting(h) ==
  /\ mounted /\ h \in handlers /\ h.op = "difficulty"
  /\ handlers' = handlers \ {h}
  /\ Render(0, 0, 0, sessionQuestionsCorrect,
            sessionMaxStreak, h.arg, isCorrect, showAnswer, 0, 0)
  /\ UNCHANGED <<mounted, loads, autoAdvance, calls, saves, dbVars>>
  /\ UNCHANGED <<events, nIssued, seed, lastMerged, storeCalls>>

\* handleDifficultyChange after the await: setDifficulty(newDifficulty)
HandleDifficultyChangeResume(h) ==
  /\ mounted /\ h \in handlers /\ h.op = "difficulty"
  /\ handlers' = handlers \ {h}
  /\ Render(score, streak, questionsAnswered, sessionQuestionsCorrect,
            sessionMaxStreak, h.arg, isCorrect, showAnswer, 0, 0)
  /\ UNCHANGED <<mounted, loads, autoAdvance, calls, saves, dbVars>>
  /\ UNCHANGED <<events, nIssued, seed, lastMerged, storeCalls>>

\* loadNewWord() from the Next Word / Try Again buttons
LoadNewWord ==
  /\ mounted
  /\ isCorrect = "true" \/ (isCorrect = "false" /\ ~showAnswer)
  /\ isCorrect' = "null"
  /\ showAnswer' = FALSE
  /\ UNCHANGED <<score, streak, questionsAnswered, sessionQuestionsCorrect,
                 sessionMaxStreak, difficulty, sessionDataRef>>
  /\ UNCHANGED <<mounted, asyncVars, dbVars, histVars>>

\* the setTimeout(() => loadNewWord(), 1500) of a correct answer fires
AutoAdvance ==
  /\ mounted /\ autoAdvance
  /\ autoAdvance' = FALSE
  /\ isCorrect' = "null"
  /\ showAnswer' = FALSE
  /\ UNCHANGED <<score, streak, questionsAnswered, sessionQuestionsCorrect,
                 sessionMaxStreak, difficulty, sessionDataRef>>
  /\ UNCHANGED <<mounted, handlers, loads, timers, calls, saves, dbVars, histVars>>

(***************************************************************************)
(* ReadScreen.tsx: loadUserStatistics, refreshStatistics                   *)
(***************************************************************************)
\* useFocusEffect: the screen regains focus and calls refreshStatistics()
Refocus ==
  /\ mounted /\ events < MaxEvents
  /\ loads' = loads \cup {LoadCall(events + 1, "refresh")}
  /\ events' = events + 1
  /\ UNCHANGED <<reactVars, mounted, handlers, timers, autoAdvance, calls, saves, dbVars>>
  /\ UNCHANGED <<nIssued, seed, recorded, ideal, lastMerged, storeCalls>>

\* a getUserLearningStatistics that skips the check of user.user
GetUserLearningStatisticsUnchecked(l, ok) ==
  /\ l \in loads /\ l.pc = "rpc"
  /\ loads' = (loads \ {l}) \cup
       {[l EXCEPT !.pc = "resolve",
                  !.stats = IF ok THEN get_user_learning_stats(learning_statistics)
                                  ELSE {}]}
  /\ UNCHANGED <<reactVars, mounted, handlers, timers, autoAdvance, calls, saves, dbVars>>
  /\ UNCHANGED <<events, nIssued, seed, recorded, ideal, lastMerged, storeCalls>>

\* getUserLearningStatistics: without a user it returns null; otherwise the
\* rpc answers with the user's row (data[0]), with no row, or fails; every
\* failure is reported as null
GetUserLearningStatistics(l, ok) ==
  /\ l \in loads /\ l.pc = "rpc"
  /\ loads' = (loads \ {l}) \cup
       {[l EXCEPT !.pc = "resolve",
                  !.stats = IF ok /\ user # NoUser
                            THEN get_user_learning_stats(learning_statistics)
                            ELSE {}]}
  /\ UNCHANGED <<reactVars, mounted, handlers, timers, autoAdvance, calls, saves, dbVars>>
  /\ UNCHANGED <<events, nIssued, seed, recorded, ideal, lastMerged, storeCalls>>

\* setters that drop the stored streak
SeedFromWithoutStreak(stats) ==
  [score                   |-> stats.total_questions_correct,
   streak                  |-> 0,
   questionsAnswered       |-> stats.total_questions_attempted,
   sessionQuestionsCorrect |-> stats.total_questions_correct,
   sessionMaxStreak        |-> stats.best_streak]

\* the five setters both loaders call with the stats that came back
SeedFrom(stats) ==
  [score                   |-> stats.total_questions_correct,
   streak                  |-> stats.current_streak,
   questionsAnswered       |-> stats.total_questions_attempted,
   sessionQuestionsCorrect |-> stats.total_questions_correct,
   sessionMaxStreak        |-> stats.best_streak]

\* a refresh that keeps the counters when no stats come back
RefreshKeepsCounters ==
  [score                   |-> score,
   streak                  |-> streak,
   questionsAnswered       |-> questionsAnswered,
   sessionQuestionsCorrect |-> sessionQuestionsCorrect,
   sessionMaxStreak        |-> sessionMaxStreak]

\* the else branch of refreshStatistics: no stats, set everything to 0
RefreshWithoutStats ==
  [score                   |-> 0,
   streak                  |-> 0,
   questionsAnswered       |-> 0,
   sessionQuestionsCorrect |-> 0,
   sessionMaxStreak        |-> 0]

\* loadUserStatistics after its await: seed the counters when stats came
\* back, then loadNewWord()
LoadUserStatistics(l) ==
  /\ mounted /\ l \in loads /\ l.kind = "load" /\ l.pc = "resolve"
  /\ loads' = loads \ {l}
  /\ IF l.stats # {}
     THEN LET to == SeedFrom(CHOOSE x \in l.stats : TRUE) IN
          Render(to.score, to.streak, to.questionsAnswered,
                 to.sessionQuestionsCorrect, to.sessionMaxStreak,
                 difficulty, "null", FALSE, 0, 0)
     ELSE Render(score, streak, questionsAnswered, sessionQuestionsCorrect,
                 sessionMaxStreak, difficulty, "null", FALSE, 0, 0)
  /\ seed' = IF events = 0 THEN l.stats ELSE seed
  /\ UNCHANGED <<mounted, handlers, autoAdvance, calls, saves, dbVars>>
  /\ UNCHANGED <<events, nIssued, lastMerged, storeCalls>>

\* refreshStatistics after its await: take the stats, or zero everything
\* when none came back
RefreshStatistics(l) ==
  /\ mounted /\ l \in loads /\ l.kind = "refresh" /\ l.pc = "resolve"
  /\ loads' = loads \ {l}
  /\ LET to == IF l.stats # {} THEN SeedFrom(CHOOSE x \in l.stats : TRUE)
                                ELSE RefreshWithoutStats IN
     Render(to.score, to.streak, to.questionsAnswered,
            to.sessionQuestionsCorrect, to.sessionMaxStreak,
            difficulty, isCorrect, showAnswer, 0, 0)
  /\ UNCHANGED <<mounted, handlers, autoAdvance, calls, saves, dbVars>>
  /\ UNCHANGED <<events, nIssued, seed, lastMerged, storeCalls>>

(***************************************************************************)
(* ReadScreen.tsx: the debounce timer of the save effect                   *)
(***************************************************************************)
\* 100 ms pass
Tick ==
  /\ \E t \in timers : t.age < DebounceTicks
  /\ timers' = {[t EXCEPT !.age = Min(t.age + 1, DebounceTicks)] : t \in timers}
  /\ UNCHANGED <<reactVars, mounted, handlers, loads, autoAdvance, calls, saves,
                 dbVars, histVars>>

\* a timeout that runs without waiting for its delay
TimerDueAtOnce(t) == t.age >= 0

\* a timeout may run once its delay has passed
TimerDue(t) == t.age >= DebounceTicks

\* an updateUserStatistics call about to select the existing row
UpdateCall(id, updates) ==
  [id |-> id, updates |-> updates, pc |-> "select", existing |-> {}]

\* new Date(): the time now
Now == storeCalls

\* the timeout callback: updateUserStatistics({...}) with the captured values
TimerFire(t) ==
  /\ t \in timers /\ TimerDue(t)
  /\ timers' = timers \ {t}
  /\ calls' = calls \cup {UpdateCall(nIssued + 1, t.updates)}
  /\ nIssued' = nIssued + 1
  /\ ideal' = MergeIncremental(ideal, t.updates, Now)
  /\ UNCHANGED <<reactVars, mounted, handlers, loads, autoAdvance, saves, dbVars>>
  /\ UNCHANGED <<events, seed, recorded, lastMerged, storeCalls>>

(***************************************************************************)
(* utils/learningDatabase.ts: updateUserStatistics, step by step           *)
(***************************************************************************)
\* bookkeeping: one more successful write of updates u
Merged(last, u) ==
  IF \E m \in last : m.updates = u
  THEN [updates |-> u, times |-> (CHOOSE m \in last : TRUE).times + 1]
  ELSE [updates |-> u, times |-> 1]

\* an updateUserStatistics whose thrown error escapes and takes the screen down
UpdateUserStatisticsSelectUncaught(c, outcome) ==
  /\ c \in calls /\ c.pc = "select"
  /\ calls' = CASE user = NoUser -> calls \ {c}
                [] outcome = "row" ->
                    (calls \ {c}) \cup
                      {[c EXCEPT !.pc = "write", !.existing = learning_statistics]}
                [] outcome = "null" ->
                    (calls \ {c}) \cup {[c EXCEPT !.pc = "write"]}
                [] OTHER -> calls \ {c}
  /\ mounted' = IF outcome = "throw" THEN FALSE ELSE mounted
  /\ UNCHANGED <<reactVars, handlers, loads, timers, autoAdvance, saves, dbVars>>
  /\ UNCHANGED <<events, nIssued, seed, recorded, ideal, lastMerged, storeCalls>>

\* getUser and the select of the existing row: no user or a thrown error
\* ends the call (return false); a failed select leaves existing null
UpdateUserStatisticsSelect(c, outcome) ==
  /\ c \in calls /\ c.pc = "select"
  /\ calls' = CASE user = NoUser -> calls \ {c}
                [] outcome = "row" ->
                    (calls \ {c}) \cup
                      {[c EXCEPT !.pc = "write", !.existing = learning_statistics]}
                [] outcome = "null" ->
                    (calls \ {c}) \cup {[c EXCEPT !.pc = "write"]}
                [] OTHER -> calls \ {c}
  /\ UNCHANGED <<reactVars, mounted, handlers, loads, timers, autoAdvance, saves, dbVars>>
  /\ UNCHANGED <<events, nIssued, seed, recorded, ideal, lastMerged, storeCalls>>

\* the update or the insert: it succeeds, or the request fails and the
\* table is left alone (return false)
UpdateUserStatisticsWrite(c, ok) ==
  /\ c \in calls /\ c.pc = "write"
  /\ calls' = calls \ {c}
  /\ IF ok /\ WriteAccepted(learning_statistics, c.existing)
     THEN /\ learning_statistics' =
               WriteResult(learning_statistics, c.existing, c.updates, Now)
          /\ lastMerged' = {Merged(lastMerged, c.updates)}
     ELSE UNCHANGED <<learning_statistics, lastMerged>>
  /\ UNCHANGED <<reactVars, mounted, handlers, loads, timers, autoAdvance, saves,
                 learning_sessions, user>>
  /\ UNCHANGED <<events, nIssued, seed, recorded, ideal, storeCalls>>

(***************************************************************************)
(* ReadScreen.tsx unmount effect; saveCompleteLearningSession              *)
(***************************************************************************)
\* what the unmount cleanup starts: saveCompleteLearningSession(ref.current)
\* when a question has been attempted
UnmountSave(ref) == IF ref.questionsAttempted > 0 THEN {ref} ELSE {}

\* the component unmounts: every effect cleanup runs (the save effect clears
\* its timeout, the unmount effect saves the session); setters called by
\* work still suspended are ignored from now on
Unmount ==
  /\ mounted
  /\ mounted' = FALSE
  /\ timers' = {}
  /\ saves' = saves \cup UnmountSave(sessionDataRef)
  /\ handlers' = {}
  /\ loads' = {}
  /\ autoAdvance' = FALSE
  /\ UNCHANGED <<reactVars, calls, dbVars, histVars>>

\* saveCompleteLearningSession: without a user it returns false; otherwise
\* one insert into learning_sessions with session_end set, which succeeds or
\* fails (return false)
SaveCompleteLearningSession(sessionSummary, ok) ==
  /\ sessionSummary \in saves
  /\ saves' = saves \ {sessionSummary}
  /\ learning_sessions' =
       IF ok /\ user # NoUser
       THEN Append(learning_sessions,
                   SessionRow(sessionSummary.difficulty,
                              sessionSummary.startTime,
                              sessionSummary.questionsAttempted,
                              sessionSummary.questionsCorrect,
                              sessionSummary.maxStreak,
                              sessionSummary.score, TRUE))
       ELSE learning_sessions
  /\ UNCHANGED <<reactVars, mounted, handlers, loads, timers, autoAdvance, calls,
                 learning_statistics, user>>
  /\ UNCHANGED <<events, nIssued, seed, recorded, ideal, lastMerged, storeCalls>>

(***************************************************************************)
(* The screen and the store it talks to                                    *)
(***************************************************************************)
Next ==
  \/ CheckAnswer
  \/ \E h \in handlers : CheckAnswerResume(h)
  \/ HandleShowAnswer
  \/ \E h \in handlers : HandleShowAnswerResume(h)
  \/ HandleSkip
  \/ \E h \in handlers : HandleSkipResume(h)
  \/ HandleDifficultyChange
  \/ \E h \in handlers : HandleDifficultyChangeResume(h)
  \/ LoadNewWord
  \/ AutoAdvance
  \/ Refocus
  \/ \E l \in loads, ok \in BOOLEAN : GetUserLearningStatistics(l, ok)
  \/ \E l \in loads : LoadUserStatistics(l)
  \/ \E l \in loads : RefreshStatistics(l)
  \/ Tick
  \/ \E t \in timers : TimerFire(t)
  \/ \E c \in calls, outcome \in {"row", "null", "throw"} :
        UpdateUserStatisticsSelect(c, outcome)
  \/ \E c \in calls, ok \in BOOLEAN : UpdateUserStatisticsWrite(c, ok)
  \/ Unmount
  \/ \E s \in saves, ok \in BOOLEAN : SaveCompleteLearningSession(s, ok)

Spec == Init /\ [][Next]_vars

(***************************************************************************)
(* The same program while the store answers every request                  *)
(***************************************************************************)
NextAvailable ==
  \/ CheckAnswer
  \/ \E h \in handlers : CheckAnswerResume(h)
  \/ HandleShowAnswer
  \/ \E h \in handlers : HandleShowAnswerResume(h)
  \/ HandleSkip
  \/ \E h \in handlers : HandleSkipResume(h)
  \/ HandleDifficultyChange
  \/ \E h \in handlers : HandleDifficultyChangeResume(h)
  \/ LoadNewWord
  \/ AutoAdvance
  \/ Refocus
  \/ \E l \in loads : GetUserLearningStatistics(l, TRUE)
  \/ \E l \in loads : LoadUserStatistics(l)
  \/ \E l \in loads : RefreshStatistics(l)
  \/ Tick
  \/ \E t \in timers : TimerFire(t)
  \/ \E c \in calls : UpdateUserStatisticsSelect(c, "row")
  \/ \E c \in calls : UpdateUserStatisticsWrite(c, TRUE)
  \/ Unmount
  \/ \E s \in saves : SaveCompleteLearningSession(s, TRUE)

SpecAvailable == Init /\ [][NextAvailable]_vars

(***************************************************************************)
(* The store functions called directly, one call at a time                 *)
(***************************************************************************)
\* the arguments a caller hands to updateUserStatistics: counters of a
\* session, so no more correct answers than attempts
SnapshotSet ==
  {u \in {Updates(qa, qc, cs, d) :
            qa \in 0..MaxCount, qc \in 0..MaxCount, cs \in 0..MaxCount, d \in Difficulty} :
     u.questions_correct <= u.questions_attempted}

\* the results a caller hands to updateLearningSession
SessionResults ==
  {r \in [questions_attempted : 0..MaxCount, questions_correct : 0..MaxCount,
           max_streak : 0..MaxCount, final_score : 0..MaxCount] :
     r.questions_correct <= r.questions_attempted /\ r.max_streak <= r.questions_correct}

\* no screen, nothing in flight, nothing done yet to the table there is
StoreAtRest ==
  /\ score = 0
  /\ streak = 0
  /\ questionsAnswered = 0
  /\ sessionQuestionsCorrect = 0
  /\ sessionMaxStreak = 0
  /\ difficulty = "easy"
  /\ isCorrect = "null"
  /\ showAnswer = FALSE
  /\ sessionDataRef = SessionData("easy", 0, 0, 0)
  /\ mounted = FALSE
  /\ handlers = {}
  /\ loads = {}
  /\ timers = {}
  /\ autoAdvance = FALSE
  /\ calls = {}
  /\ saves = {}
  /\ learning_sessions = <<>>
  /\ events = 0
  /\ nIssued = 0
  /\ seed = {}
  /\ recorded = [k |-> 0, c |-> 0, hi |-> 0]
  /\ ideal = learning_statistics
  /\ lastMerged = {}
  /\ storeCalls = 0

InitStore == learning_statistics \in InitialTables /\ StoreAtRest /\ user = SignedIn

\* a caller invokes updateUserStatistics(updates) and awaits it
CallUpdateUserStatistics(updates) ==
  /\ calls = {} /\ storeCalls < MaxStoreCalls
  /\ calls' = {UpdateCall(nIssued + 1, updates)}
  /\ nIssued' = nIssued + 1
  /\ storeCalls' = storeCalls + 1
  /\ ideal' = MergeIncremental(ideal, updates, storeCalls')
  /\ UNCHANGED <<reactVars, mounted, handlers, loads, timers, autoAdvance, saves, dbVars>>
  /\ UNCHANGED <<events, seed, recorded, lastMerged>>

\* createLearningSession: without a user it returns null; otherwise it
\* inserts an open session row with zero counters
CreateLearningSession(d, ok) ==
  /\ calls = {} /\ storeCalls < MaxStoreCalls
  /\ storeCalls' = storeCalls + 1
  /\ learning_sessions' =
       IF ok /\ user # NoUser
       THEN Append(learning_sessions, SessionRow(d, storeCalls', 0, 0, 0, 0, FALSE))
       ELSE learning_sessions
  /\ UNCHANGED <<reactVars, mounted, asyncVars, learning_statistics, user>>
  /\ UNCHANGED <<events, nIssued, seed, recorded, ideal, lastMerged>>

\* updateLearningSession: updates row sessionId with the results and a
\* session_end; the AFTER UPDATE OF session_end trigger folds the row into
\* learning_statistics when the row was open
UpdateLearningSession(sessionId, sessionData, ok) ==
  /\ calls = {} /\ storeCalls < MaxStoreCalls
  /\ sessionId \in 1..Len(learning_sessions)
  /\ storeCalls' = storeCalls + 1
  /\ LET old == learning_sessions[sessionId]
         new == SessionRow(old.difficulty, old.session_start,
                           sessionData.questions_attempted,
                           sessionData.questions_correct, sessionData.max_streak,
                           sessionData.final_score, TRUE)
     IN IF ok
        THEN /\ learning_sessions' = [learning_sessions EXCEPT ![sessionId] = new]
             /\ IF TriggerFires(old, new)
                THEN /\ learning_statistics' =
                          update_learning_statistics(learning_statistics, new)
                     /\ ideal' = update_learning_statistics(ideal, new)
                     /\ lastMerged' = {}
                ELSE UNCHANGED <<learning_statistics, ideal, lastMerged>>
        ELSE UNCHANGED <<learning_statistics, learning_sessions, ideal, lastMerged>>
  /\ UNCHANGED <<reactVars, mounted, asyncVars, user>>
  /\ UNCHANGED <<events, nIssued, seed, recorded>>

\* the summaries a caller hands to saveCompleteLearningSession: the session
\* of the screen, with counters as the ref effect builds them; both callers
\* save only when a question has been attempted
SummarySet ==
  {SessionData(u.difficulty, u.questions_attempted, u.questions_correct,
               u.current_streak) :
     u \in {x \in SnapshotSet : x.questions_attempted > 0}}

\* a caller (saveCurrentSession, the unmount cleanup) invokes
\* saveCompleteLearningSession(sessionSummary) and awaits it
CallSaveCompleteLearningSession(sessionSummary) ==
  /\ saves = {} /\ storeCalls < MaxStoreCalls
  /\ saves' = {sessionSummary}
  /\ storeCalls' = storeCalls + 1
  /\ UNCHANGED <<reactVars, mounted, handlers, loads, timers, autoAdvance, calls, dbVars>>
  /\ UNCHANGED <<events, nIssued, seed, recorded, ideal, lastMerged>>

\* the session-end save on its own: callers hand summaries of the session
\* that started at SessionStartTime to saveCompleteLearningSession
NextSessionEnd ==
  \/ \E sessionSummary \in SummarySet : CallSaveCompleteLearningSession(sessionSummary)
  \/ \E s \in saves, ok \in BOOLEAN : SaveCompleteLearningSession(s, ok)

SpecSessionEnd == InitStore /\ [][NextSessionEnd]_vars

NextStore ==
  \/ \E updates \in SnapshotSet : CallUpdateUserStatistics(updates)
  \/ \E c \in calls, outcome \in {"row", "null", "throw"} :
        UpdateUserStatisticsSelect(c, outcome)
  \/ \E c \in calls, ok \in BOOLEAN : UpdateUserStatisticsWrite(c, ok)
  \/ \E d \in Difficulty, ok \in BOOLEAN : CreateLearningSession(d, ok)
  \/ \E sessionId \in 1..Len(learning_sessions), sessionData \in SessionResults,
         ok \in BOOLEAN : UpdateLearningSession(sessionId, sessionData, ok)

SpecStore == InitStore /\ [][NextStore]_vars

\* a caller invokes getUserLearningStatistics() and awaits it
CallGetUserLearningStatistics ==
  /\ calls = {} /\ saves = {} /\ storeCalls < MaxStoreCalls
  /\ \A l \in loads : l.pc = "resolve"
  /\ loads' = loads \cup {LoadCall(storeCalls + 1, "load")}
  /\ storeCalls' = storeCalls + 1
  /\ UNCHANGED <<reactVars, mounted, handlers, timers, autoAdvance, calls, saves, dbVars>>
  /\ UNCHANGED <<events, nIssued, seed, recorded, ideal, lastMerged>>

\* the store functions that ask supabase.auth.getUser() first, called one at
\* a time, with a user signed in or with none
InitAuth == learning_statistics \in InitialTables /\ StoreAtRest /\ user \in Users

\* the snapshot of one correct answer, on each difficulty
AuthSnapshots == {Updates(1, 1, 1, d) : d \in Difficulty}

NextAuth ==
  \/ \E updates \in AuthSnapshots : CallUpdateUserStatistics(updates)
  \/ \E c \in calls, outcome \in {"row", "null", "throw"} :
        UpdateUserStatisticsSelect(c, outcome)
  \/ \E c \in calls, ok \in BOOLEAN : UpdateUserStatisticsWrite(c, ok)
  \/ \E u \in AuthSnapshots :
        CallSaveCompleteLearningSession(
          SessionData(u.difficulty, u.questions_attempted, u.questions_correct,
                      u.current_streak))
  \/ \E s \in saves, ok \in BOOLEAN : SaveCompleteLearningSession(s, ok)
  \/ \E d \in Difficulty, ok \in BOOLEAN : CreateLearningSession(d, ok)
  \/ CallGetUserLearningStatistics
  \/ \E l \in loads, ok \in BOOLEAN : GetUserLearningStatistics(l, ok)

SpecAuth == InitAuth /\ [][NextAuth]_vars

\* the rows the create path leaves for a first snapshot of up to
\* MaxAttempted questions on one difficulty
AccuracyRows ==
  {InsertData(Updates(qa, qc, 0, d), SessionStartTime) :
     qa \in 0..MaxAttempted, qc \in 0..MaxAttempted, d \in Difficulty}

\* get_user_learning_stats() read through getUserLearningStatistics, on a
\* table holding one such row
InitAccuracy ==
  /\ learning_statistics \in {{r} : r \in {x \in AccuracyRows :
         x.total_questions_correct <= x.total_questions_attempted}}
  /\ StoreAtRest
  /\ user = SignedIn

NextAccuracy ==
  \/ CallGetUserLearningStatistics
  \/ \E l \in loads, ok \in BOOLEAN : GetUserLearningStatistics(l, ok)

SpecAccuracy == InitAccuracy /\ [][NextAccuracy]_vars

(***************************************************************************)
(* Observations the claims are stated on                                   *)
(***************************************************************************)
\* no store call of the screen is outstanding and no save timer is pending
Quiescent == calls = {} /\ saves = {} /\ timers = {}

\* the counters the save effect would send now
LiveUpdates == Updates(questionsAnswered, score, streak, difficulty)

\* the fields of the Aggregate a snapshot carries: totals, current and best streak
Totals(r) == <<r.total_questions_attempted, r.total_questions_correct,
               r.current_streak, r.best_streak>>

\* row r holds the counters of updates u
Holds(r, u) ==
  /\ r.total_questions_attempted = u.questions_attempted
  /\ r.total_questions_correct = u.questions_correct
  /\ r.current_streak = u.current_streak


(***************************************************************************)
(* Claims                                                                  *)
(***************************************************************************)

\* C1: in every state of a practice session the session's max streak
\* (sessionMaxStreak, and maxStreak of the snapshot in sessionDataRef) is at
\* least the current streak.
C1_MaxStreakAtLeastCurrent ==
  mounted => (sessionMaxStreak >= streak /\ sessionDataRef.maxStreak >= streak)

\* C2: best_streak and best_score of the Aggregate never decrease, whatever
\* the merges carry and in whatever order they complete.
C2_BestNeverDecreases ==
  [][\A r \in learning_statistics, n \in learning_statistics' :
        n.best_streak >= r.best_streak /\ n.best_score >= r.best_score]_vars

\* C3: total_questions_attempted, total_questions_correct and total_sessions
\* of the Aggregate never decrease: no step writes a smaller value than the
\* one stored.
C3_TotalsNeverDecrease ==
  [][\A r \in learning_statistics, n \in learning_statistics' :
        /\ n.total_questions_attempted >= r.total_questions_attempted
        /\ n.total_questions_correct >= r.total_questions_correct
        /\ n.total_sessions >= r.total_sessions]_vars

\* C4: after the screen has unmounted and every store call has completed
\* (the store answering every request), the Aggregate holds the counters of
\* every answer recorded before the unmount.
C4_TeardownFlushesLatest ==
  (~mounted /\ Quiescent /\ questionsAnswered > 0)
    => \E r \in learning_statistics : Holds(r, LiveUpdates)

\* C5: at most one updateUserStatistics call is in flight at any time, and
\* once all writes have completed the Aggregate holds the counters of the
\* most recently scheduled snapshot.
C5_SingleFlight ==
  /\ Cardinality(calls) <= 1
  /\ (mounted /\ Quiescent /\ handlers = {} /\ loads = {} /\ questionsAnswered > 0)
       => \E r \in learning_statistics : Holds(r, LiveUpdates)

C7_ImmediateWrite ==
  [][(timers = {} /\ calls = {} /\ timers' # {}) => nIssued' = nIssued + 1]_vars

\* C7 amended: scheduling a snapshot only arms a timer and issues no call;
\* a call is issued only by a timer that has waited the whole delay, and it
\* carries that timer's snapshot.
C7_WriteAfterDelay ==
  [][/\ (\E t \in timers' \ timers : t.age = 0) => nIssued' = nIssued
     /\ nIssued' # nIssued =>
          \E t \in timers :
            /\ t.age >= DebounceTicks
            /\ timers' = timers \ {t}
            /\ calls' = calls \cup {UpdateCall(nIssued', t.updates)}]_vars

\* C7 witness: the first snapshot of a session has been issued by its timer.
C7_Witness ==
  /\ nIssued = 1 /\ timers = {}
  /\ \E c \in calls : c.pc = "select"

\* C8: for a session seeded from a loaded Aggregate that records k answers,
\* c of them correct, after the unmount and with every store call completed
\* the Aggregate has totals old + k and old + c, the live streak as
\* current_streak and a best_streak at least the highest streak reached.
C8_EndToEnd ==
  (~mounted /\ Quiescent /\ seed # {})
    => \E r \in learning_statistics, s \in seed :
         /\ r.total_questions_attempted = s.total_questions_attempted + recorded.k
         /\ r.total_questions_correct = s.total_questions_correct + recorded.c
         /\ r.current_streak = streak
         /\ r.best_streak >= recorded.hi

\* C9: once the write of the latest snapshot has succeeded and nothing is
\* pending, the Aggregate (totals, current and best streak) equals the one
\* that results when every issued write succeeds, whichever earlier writes
\* failed.
C9_MissedWriteHarmless ==
  (calls = {} /\ timers = {} /\ \E m \in lastMerged :
       /\ m.updates.questions_attempted = questionsAnswered
       /\ m.updates.questions_correct = score
       /\ m.updates.current_streak = streak)
    => {Totals(r) : r \in learning_statistics} = {Totals(r) : r \in ideal}

\* the fields of the Aggregate C10 names
MergedFields(r) ==
  <<r.total_questions_attempted, r.total_questions_correct, r.current_streak,
    r.best_streak, r.d_questions_attempted, r.d_questions_correct>>

\* C10: a second successful updateUserStatistics with the snapshot the
\* previous one wrote leaves totals, current and best streak and the
\* per-difficulty counters as they were after the first.
C10_MergeIdempotent ==
  [][(lastMerged' # lastMerged /\ \E m \in lastMerged' : m.times >= 2)
       => {MergedFields(r) : r \in learning_statistics'}
            = {MergedFields(r) : r \in learning_statistics}]_vars

\* C10 witness: a snapshot with answers in it has been merged twice in a row
\* into an existing row.
C10_Witness ==
  /\ learning_statistics # {}
  /\ \E m \in lastMerged : m.times = 2 /\ m.updates.questions_attempted > 0

\* the history records of the session that started at SessionStartTime
SessionRecords ==
  {i \in DOMAIN learning_sessions : learning_sessions[i].session_start = SessionStartTime}

\* C11: however many times the session-end save runs for one session,
\* learning_sessions holds at most one record of that session.
C11_EndIdempotent == Cardinality(SessionRecords) <= 1

\* a step in which a wrong answer, a skip or a reveal resumes and renders
StreakBreak ==
  /\ mounted'
  /\ \E h \in handlers \ handlers' :
       \/ h.op \in {"show", "skip"}
       \/ h.op = "check" /\ ~h.arg

\* C12: a wrong answer, a skip or a reveal at streak n > 0 sets the streak
\* to 0, and the max streak of the session (the one the session snapshot
\* carries to the history record) stays at least n.
C12_BreakKeepsMaxStreak ==
  [][(StreakBreak /\ streak > 0)
       => /\ streak' = 0
          /\ sessionDataRef'.maxStreak >= streak]_vars

\* a step in which a checkAnswer or a handleSkip resumes and renders
AnswerRecorded ==
  /\ mounted'
  /\ \E h \in handlers \ handlers' : h.op \in {"check", "skip"}

\* C13: every checkAnswer and every handleSkip that runs adds one to
\* questionsAnswered, also when they are invoked in rapid succession (no
\* stored Aggregate, so nothing else writes the counter).
C13_NoAnswerLost ==
  [][(AnswerRecorded /\ learning_statistics = {})
       => questionsAnswered' = questionsAnswered + 1]_vars

\* C14: the correct count never exceeds the attempted count, in the live
\* counters and in the stored Aggregate (total and per difficulty).
C14_CorrectAtMostAttempted ==
  /\ score <= questionsAnswered
  /\ \A r \in learning_statistics :
       /\ r.total_questions_correct <= r.total_questions_attempted
       /\ \A d \in Difficulty : r.d_questions_correct[d] <= r.d_questions_attempted[d]

\* C15: when the mount load resolves with the stored Aggregate, the live
\* counters are seeded from it: score = total_questions_correct,
\* streak = current_streak, questionsAnswered = total_questions_attempted.
C15_LoadSeedsCounters ==
  [][\A l \in loads \ loads' :
       (mounted' /\ l.kind = "load" /\ l.pc = "resolve" /\ l.stats # {})
         => \E stats \in l.stats :
              /\ score' = stats.total_questions_correct
              /\ streak' = stats.current_streak
              /\ questionsAnswered' = stats.total_questions_attempted]_vars

\* C15 witness: the mount load has resolved with a stored Aggregate of
\* 2 attempted, 1 correct, streak 1, and the counters show it.
C15_Witness ==
  /\ mounted /\ events = 0
  /\ \A l \in loads : l.kind # "load"
  /\ learning_statistics # {}
  /\ \A r \in learning_statistics :
       /\ r.current_streak > 0
       /\ score = r.total_questions_correct
       /\ streak = r.current_streak
       /\ questionsAnswered = r.total_questions_attempted

\* C16: a session starts with its own counters at zero, so the history
\* record written at the end of a session seeded from a stored Aggregate
\* reports the answers of that session (questions_attempted = k), not the
\* cumulative total.
C16_SessionCountsOwnAnswers ==
  (~mounted /\ saves = {} /\ seed # {})
    => \A i \in DOMAIN learning_sessions :
         learning_sessions[i].questions_attempted = recorded.k

\* a step in which a load of the given kind resolves with no stats (the
\* store failed or holds no Aggregate) and the screen renders
ResolvesWithoutStats(kind) ==
  /\ mounted'
  /\ \E l \in loads \ loads' : l.kind = kind /\ l.pc = "resolve" /\ l.stats = {}

C18_FirstMergeCreates ==
  [][/\ (learning_statistics = {} /\ events = 0)
          => (score = 0 /\ streak = 0 /\ questionsAnswered = 0)
     /\ Cardinality(learning_statistics') <= 1
     /\ learning_statistics # {} => learning_statistics' # {}
     /\ (learning_statistics = {} /\ learning_statistics' # {})
          => \E m \in lastMerged', r \in learning_statistics' :
               /\ lastMerged' # lastMerged
               /\ Holds(r, m.updates)
               /\ r.best_streak = m.updates.current_streak
               /\ r.first_session_date # NullDate]_vars

\* C18 witness: the row was created by a first write whose snapshot had no
\* correct answer (best_score 0, which only the create path writes), and a
\* later write of a snapshot with a correct answer updated that same row.
C18_Witness ==
  /\ Cardinality(learning_statistics) = 1
  /\ \E r \in learning_statistics, m \in lastMerged :
       /\ r.best_score = 0
       /\ r.first_session_date # NullDate
       /\ m.updates.questions_correct > 0
       /\ Holds(r, m.updates)

\* a step in which the session_end trigger folded session row i into the
\* Aggregate
TriggerFolded(i) ==
  /\ i \in DOMAIN learning_sessions
  /\ learning_sessions'[i].session_end /\ ~learning_sessions[i].session_end

\* C19: first_session_date keeps the value written when the row was
\* created, across every updateUserStatistics write and every firing of the
\* trigger; last_session_date is rewritten by each of them (with the time
\* of the write, or with the session_start of the closed session).
C19_FirstDateImmutable ==
  [][/\ \A r \in learning_statistics, n \in learning_statistics' :
          n.first_session_date = r.first_session_date
     /\ lastMerged' # lastMerged /\ lastMerged' # {}
          => \A n \in learning_statistics' : n.last_session_date = Now
     /\ \A i \in DOMAIN learning_sessions :
          TriggerFolded(i)
            => \A n \in learning_statistics' :
                 n.last_session_date = learning_sessions[i].session_start]_vars

\* C19 witness: an updateUserStatistics write has updated a row created
\* earlier: its last_session_date is later than its first_session_date.
C19_Witness ==
  /\ lastMerged # {}
  /\ \E r \in learning_statistics : r.last_session_date > r.first_session_date

\* C20: after a successful updateUserStatistics carrying a snapshot with
\* score s, best_score of the Aggregate is at least s.
C20_BestScoreAtLeastScore ==
  [][(lastMerged' # lastMerged)
       => \A m \in lastMerged', r \in learning_statistics' :
            r.best_score >= m.updates.questions_correct]_vars

\* C21: a successful updateUserStatistics tagged with difficulty d leaves
\* the per-difficulty counters of the other difficulties unchanged and
\* raises d's attempted and correct counters by what was attempted and
\* answered correctly since the previous write (the rise of the totals),
\* for a session seeded from the stored row whose snapshot is not behind it.
C21_OnlyTaggedDifficulty ==
  [][(lastMerged' # lastMerged /\ learning_statistics # {} /\ seed # {})
       => \A m \in lastMerged', r \in learning_statistics, n \in learning_statistics' :
            LET d == m.updates.difficulty IN
            (/\ m.updates.questions_attempted >= r.total_questions_attempted
             /\ m.updates.questions_correct >= r.total_questions_correct)
              => /\ \A x \in Difficulty \ {d} :
                      /\ n.d_questions_attempted[x] = r.d_questions_attempted[x]
                      /\ n.d_questions_correct[x] = r.d_questions_correct[x]
                 /\ n.d_questions_attempted[d] - r.d_questions_attempted[d]
                      = n.total_questions_attempted - r.total_questions_attempted
                 /\ n.d_questions_correct[d] - r.d_questions_correct[d]
                      = n.total_questions_correct - r.total_questions_correct]_vars

\* a step in which a handleDifficultyChange resumes and renders
DifficultyChanged ==
  /\ mounted'
  /\ \E h \in handlers \ handlers' : h.op = "difficulty"

\* C22: handleDifficultyChange leaves score, streak, questionsAnswered, the
\* session's start time and max streak as they were, and by itself neither
\* arms a save timer, nor starts a store call, nor adds a history record.
C22_DifficultyChangeKeepsCounters ==
  [][DifficultyChanged
       => /\ score' = score /\ streak' = streak
          /\ questionsAnswered' = questionsAnswered
          /\ sessionMaxStreak' = sessionMaxStreak
          /\ sessionDataRef'.startTime = sessionDataRef.startTime
          /\ sessionDataRef'.maxStreak = sessionDataRef.maxStreak
          /\ timers' = timers /\ calls' = calls /\ saves' = saves
          /\ nIssued' = nIssued
          /\ learning_sessions' = learning_sessions
          /\ learning_statistics' = learning_statistics]_vars

\* C22 witness: the difficulty was changed after the counters were seeded
\* with 2 answered; they are as seeded and the pending save timer is still
\* the one armed before the change.
C22_Witness ==
  /\ mounted /\ events = 1 /\ handlers = {}
  /\ difficulty = "medium"
  /\ questionsAnswered = 2 /\ score = 1 /\ streak = 1
  /\ sessionDataRef.difficulty = "medium"
  /\ \E t \in timers : t.updates.difficulty = "easy"

\* C23: with no authenticated user updateUserStatistics,
\* saveCompleteLearningSession, createLearningSession and
\* getUserLearningStatistics change neither learning_statistics nor
\* learning_sessions and report failure: no write is recorded and every
\* resolved getUserLearningStatistics returned null.
C23_UnauthenticatedNoOp ==
  user = NoUser
    => /\ learning_statistics \in InitialTables
       /\ learning_sessions = <<>>
       /\ lastMerged = {}
       /\ \A c \in calls : c.pc = "select"
       /\ \A l \in loads : l.stats = {}

\* C23 witness: with no user and a stored row, an updateUserStatistics call
\* has returned and a getUserLearningStatistics call has resolved with null.
C23_Witness ==
  /\ user = NoUser
  /\ learning_statistics # {}
  /\ nIssued > 0 /\ calls = {}
  /\ \E l \in loads : l.pc = "resolve" /\ l.stats = {}

\* a step of an updateUserStatistics call already issued: its select or its
\* write, whatever the outcome
StoreCallStep == calls' # calls /\ nIssued' = nIssued /\ mounted

\* a step in which the screen renders changed counters
CountersChanged ==
  /\ mounted'
  /\ <<score', streak', questionsAnswered'>> # <<score, streak, questionsAnswered>>

ExactAccuracy(acc, correct, attempted) ==
  IF attempted = 0 THEN acc = 0 ELSE acc * attempted = 10000 * correct

\* accuracy value acc is correct / attempted * 100 rounded to two decimals
RoundedAccuracy(acc, correct, attempted) ==
  IF attempted = 0
  THEN acc = 0
  ELSE /\ 2 * (acc * attempted - 10000 * correct) <= attempted
       /\ 2 * (10000 * correct - acc * attempted) <= attempted

\* the accuracy columns of the stats s read from row r all satisfy P
AccuracyColumns(P(_, _, _), s, r) ==
  /\ P(s.accuracy_percentage, r.total_questions_correct, r.total_questions_attempted)
  /\ \A d \in Difficulty :
       P(s.d_accuracy[d], r.d_questions_correct[d], r.d_questions_attempted[d])

\* C25 as stated: every accuracy column is 0 when its attempted count is 0
\* and exactly correct / attempted * 100 otherwise.
C25_AccuracyExact ==
  \A l \in loads : \A s \in l.stats, r \in learning_statistics :
    AccuracyColumns(ExactAccuracy, s, r)

\* C25: every accuracy column is defined for every row: 0 when its
\* attempted count is 0, otherwise correct / attempted * 100 rounded to two
\* decimals (3 of 4 gives 75), and within 0..100 when correct <= attempted.
C25_AccuracyRounded ==
  \A l \in loads : \A s \in l.stats, r \in learning_statistics :
    /\ AccuracyColumns(RoundedAccuracy, s, r)
    /\ s.accuracy_percentage \in 0..10000
    /\ \A d \in Difficulty : s.d_accuracy[d] \in 0..10000
    /\ (r.total_questions_attempted = 4 /\ r.total_questions_correct = 3)
         => s.accuracy_percentage = 7500

\* C25 witness: the stats of a row with 2 correct of 3 have been read:
\* 66.67, with 0 for the difficulties without attempts.
C25_Witness ==
  \E l \in loads : \E s \in l.stats :
    /\ s.total_questions_attempted = 3 /\ s.total_questions_correct = 2
    /\ s.accuracy_percentage = 6667
    /\ \E d \in Difficulty : s.d_accuracy[d] = 0

\* C26: a session row is folded into learning_statistics in the step in
\* which its session_end becomes set, whether an open row is closed or the
\* row is inserted already ended, and a row that had ended before is not
\* folded again when it is updated.
C26_FoldedOnceWhenEnded ==
  [][\A i \in DOMAIN learning_sessions' :
       LET new == learning_sessions'[i] IN
       IF i \in DOMAIN learning_sessions /\ learning_sessions[i].session_end
       THEN new # learning_sessions[i] => learning_statistics' = learning_statistics
       ELSE new.session_end
              => learning_statistics'
                   = update_learning_statistics(learning_statistics, new)]_vars

\* the sum of a per-difficulty counter over the three difficulties
OverDifficulties(f) == f["easy"] + f["medium"] + f["hard"]

\* C27: in the Aggregate row the per-difficulty counters add up to the
\* totals, for the attempted and for the correct questions (looked at when
\* the row holds the seeded total plus the answers of the session).
C27_DifficultiesPartitionTotals ==
  \A r \in learning_statistics, s \in seed :
    r.total_questions_attempted = s.total_questions_attempted + recorded.k
      => /\ OverDifficulties(r.d_questions_attempted) = r.total_questions_attempted
         /\ OverDifficulties(r.d_questions_correct) = r.total_questions_correct

\* a step in which a loadUserStatistics or a refreshStatistics resolves and
\* the screen renders
LoadResolved ==
  /\ mounted'
  /\ \E l \in loads \ loads' : l.pc = "resolve"

\* C28: once an answer has been recorded, a load or refresh that resolves
\* does not take it away: questionsAnswered is not lowered.
C28_LoadKeepsLocalProgress ==
  [][(LoadResolved /\ recorded.k > 0)
       => questionsAnswered' >= questionsAnswered]_vars

\* C29: in the Aggregate row best_streak >= current_streak, through the
\* create path and the update path of updateUserStatistics, also when calls
\* overlap.
C29_BestAtLeastCurrent ==
  \A r \in learning_statistics : r.best_streak >= r.current_streak

\* C29 witness: the update path has raised best_streak to 2 with the
\* streak, and a later write has set current_streak back to 0.
C29_Witness ==
  /\ lastMerged # {}
  /\ \E r \in learning_statistics : r.best_streak = 2 /\ r.current_streak = 0

\* the number of completed sessions in a learning_sessions table
CompletedSessions(sessions) ==
  Cardinality({i \in DOMAIN sessions : sessions[i].session_end})

\* total_sessions of the Aggregate in a learning_statistics table (0 when
\* the user has no row)
TotalSessions(table) ==
  IF table = {} THEN 0 ELSE (CHOOSE r \in table : TRUE).total_sessions

\* C30: total_sessions follows the number of completed sessions in
\* learning_sessions: every step changes both by the same amount.
C30_TotalSessionsCountsCompleted ==
  [][TotalSessions(learning_statistics') - TotalSessions(learning_statistics)
       = CompletedSessions(learning_sessions') - CompletedSessions(learning_sessions)]_vars

====
